---- MODULE Spec2Model ----
(***************************************************************************)
(* Model of examples/heteroscedasticity_calibration.py: the Monte Carlo    *)
(* calibration of heteroscedasticity tests (calibrate_test,                *)
(* run_full_calibration, power_curve) and its two data generators.         *)
(*                                                                         *)
(* Numbers: rates are exact fractions <<numerator, denominator>>; the      *)
(* decimal thresholds and strengths of the source are kept in hundredths   *)
(* (0.03 -> 3, 0.80 -> 80, strength 0.25 -> 25, sigma 0.2 -> 20).          *)
(***************************************************************************)
EXTENDS Integers, Sequences, FiniteSets, TLC

\* ------------------------------------------------------------------ bounds
\* largest n_trials explored by the trial loops
MaxTrials == 2
\* how many entries of power_curve's strength list are swept
NumStrengths == 2
\* n_samples of every generated dataset
NSamples == 2

\* --------------------------------------------------------------- variables
VARIABLES
    n_trials,         \* parameter n_trials of calibrate_test / power_curve
    rng,              \* numpy's process-wide random state: [seed, pos]
    verdicts,         \* what fit + test answered for each dataset seen so far
    cpc,              \* calibrate_test: "size_arm","power_arm","returned","raised"
    trial,            \* calibrate_test: loop variable of the current arm
    false_positives,
    true_positives,
    empirical_size,
    size_calibrated,
    size_perfect,
    result,           \* the CalibrationResult returned, or NoResult
    diagnostics,      \* the "Warning: Trial ..." lines printed
    failures,         \* history: every trial whose fit or test raised
    attempted,        \* history: trials begun in the size and the power arm
    spc,              \* power_curve: "idle","running","done","raised"
    sidx,             \* power_curve: index of the current strength
    pc_trial,         \* power_curve: loop variable trial
    detections,
    points,           \* the rows printed by power_curve
    sweep_attempted,  \* history: trials begun, one entry per strength started
    sweep_log,        \* history: order of trials and rows of power_curve
    seed_pair,        \* the seeds of one size-arm trial and one power-arm trial
    rpc,              \* run_full_calibration: "calibrating","summarised"
    results,          \* run_full_calibration: the list results
    best,             \* run_full_calibration: the test printed as best, or NoResult
    oversized,        \* run_full_calibration: the tests printed as oversized
    par_arm,          \* concurrent trials: the arm whose trials the workers run
    wpc,              \* concurrent trials: each worker's position
    wtrial,           \* concurrent trials: each worker's trial index
    wdata,            \* concurrent trials: each worker's dataset
    pending,          \* concurrent trials: trial indices not yet taken
    par_data,         \* concurrent trials: the dataset each finished trial got
    par_positives     \* concurrent trials: the shared positive counter

calibVars == <<cpc, trial, false_positives, true_positives, empirical_size,
               size_calibrated, size_perfect, result, diagnostics, attempted>>
sweepVars == <<spc, sidx, pc_trial, detections, points, sweep_attempted, sweep_log>>
mainVars == <<n_trials, rng, verdicts, failures, calibVars, sweepVars>>
seedVars == <<seed_pair>>
selectVars == <<rpc, results, best, oversized>>
parVars == <<par_arm, wpc, wtrial, wdata, pending, par_data, par_positives>>
auxVars == <<seedVars, selectVars, parVars>>
vars == <<mainVars, auxVars>>

\* ------------------------------------------------------------ data and rng
NoResult == [test_name |-> "none"]
NoRate == <<0, 0>>
NoPair == [size_trial |-> -1]

\* np.random.seed(seed)
Seeded(seed) == [seed |-> seed, pos |-> 0]

\* np.random.randn(n): the next n values of the current stream
Randn(state, n) ==
    [noise |-> [seed |-> state.seed, from |-> state.pos],
     state |-> [state EXCEPT !.pos = @ + n]]

NullSigma == 20
TrumpetFloor == 10
SeedOffset == 100000

\* y = sin(2 pi x) + noise * 0.2 on the grid linspace(0, 1, n)
HomoscedasticData(n, noise) ==
    [n |-> n, noise |-> noise, floor |-> NullSigma, strength |-> 0]

\* y = sin(2 pi x) + noise * (0.1 + strength * x) on the same grid
TrumpetData(n, noise, strength) ==
    [n |-> n, noise |-> noise, floor |-> TrumpetFloor, strength |-> strength]

\* a call that runs alone: seed the random state, then draw the noise
generate_nonlinear_homoscedastic(n, seed) ==
    LET r == Randn(Seeded(seed), n)
    IN [data |-> HomoscedasticData(n, r.noise), rng |-> r.state]

generate_trumpet(n, seed, strength) ==
    LET r == Randn(Seeded(seed), n)
    IN [data |-> TrumpetData(n, r.noise, strength), rng |-> r.state]

\* ------------------------------------------------------------ trial engine
Outcomes == {"reject", "accept", "test_raises", "fit_raises"}
Raises(o) == o \in {"test_raises", "fit_raises"}

\* NadarayaWatson(...).fit and heteroscedasticity_test are functions of the
\* dataset: the first call on a dataset fixes the answer, later calls on the
\* same dataset get the same answer.
Answers(d, o) == d \in DOMAIN verdicts => verdicts[d] = o
Remember(d, o) == IF d \in DOMAIN verdicts THEN verdicts ELSE verdicts @@ (d :> o)

TrialRangeOffByOne(n) == 0 .. n
\* range(n_trials)
TrialRange(n) == 0 .. (n - 1)

SizeSeed(t) == t
PowerSeed(t) == t + SeedOffset

\* if result.is_heteroscedastic: counter += 1
Tally(counter, o) == IF o = "reject" THEN counter + 1 ELSE counter

Rate(positives, n) == <<positives, n>>
\* c/100 <= r and r <= c/100 for a rate r
AtLeast(r, c) == c * r[2] <= 100 * r[1]
AtMost(r, c) == 100 * r[1] <= c * r[2]

SizeCalibratedStrictBand(r) == AtLeast(r, 4) /\ AtMost(r, 7)
\* size_calibrated = 0.03 <= empirical_size <= 0.10
SizeCalibrated(r) == AtLeast(r, 3) /\ AtMost(r, 10)
\* size_perfect = 0.04 <= empirical_size <= 0.07
SizePerfect(r) == AtLeast(r, 4) /\ AtMost(r, 7)
\* power_adequate = power >= 0.80
PowerAdequate(r) == AtLeast(r, 80)

\* the test both calibrate_test and power_curve are run for
TestName == "dette_munk_wagner"

CalibrationResult(name, size, calibrated, power, adequate) ==
    [test_name |-> name, nominal_alpha |-> 5,
     empirical_size |-> size, size_calibrated |-> calibrated,
     power |-> power, power_adequate |-> adequate]

\* ---------------------------------------------------------- calibrate_test
\* one iteration of the size-arm loop
SizeTrial ==
    /\ cpc = "size_arm"
    /\ trial \in TrialRange(n_trials)
    /\ LET g == generate_nonlinear_homoscedastic(NSamples, SizeSeed(trial))
       IN \E o \in Outcomes :
            /\ Answers(g.data, o)
            /\ verdicts' = Remember(g.data, o)
            /\ rng' = g.rng
            /\ attempted' = [attempted EXCEPT !.size = @ + 1]
            /\ failures' = IF Raises(o)
                           THEN Append(failures, [arm |-> "size", trial |-> trial, msg |-> o])
                           ELSE failures
            /\ IF o = "fit_raises"
               THEN \* the fit is outside the try: the exception leaves calibrate_test
                    /\ cpc' = "raised"
                    /\ UNCHANGED <<trial, false_positives, diagnostics>>
               ELSE /\ cpc' = cpc
                    /\ trial' = trial + 1
                    /\ false_positives' = Tally(false_positives, o)
                    /\ diagnostics' = IF o = "test_raises"
                                      THEN Append(diagnostics, [trial |-> trial, msg |-> o])
                                      ELSE diagnostics
    /\ UNCHANGED <<n_trials, true_positives, empirical_size, size_calibrated,
                   size_perfect, result, sweepVars, auxVars>>

\* after the size-arm loop: the size verdict, then the power arm starts
SizeArmDone ==
    /\ cpc = "size_arm"
    /\ trial \notin TrialRange(n_trials)
    /\ empirical_size' = Rate(false_positives, n_trials)
    /\ size_calibrated' = SizeCalibrated(Rate(false_positives, n_trials))
    /\ size_perfect' = SizePerfect(Rate(false_positives, n_trials))
    /\ true_positives' = 0
    /\ trial' = 0
    /\ cpc' = "power_arm"
    /\ UNCHANGED <<n_trials, rng, verdicts, failures, false_positives, result,
                   diagnostics, attempted, sweepVars, auxVars>>

\* one iteration of the power-arm loop
PowerTrial ==
    /\ cpc = "power_arm"
    /\ trial \in TrialRange(n_trials)
    /\ LET g == generate_trumpet(NSamples, PowerSeed(trial), 100)
       IN \E o \in Outcomes :
            /\ Answers(g.data, o)
            /\ verdicts' = Remember(g.data, o)
            /\ rng' = g.rng
            /\ attempted' = [attempted EXCEPT !.power = @ + 1]
            /\ failures' = IF Raises(o)
                           THEN Append(failures, [arm |-> "power", trial |-> trial, msg |-> o])
                           ELSE failures
            /\ IF o = "fit_raises"
               THEN /\ cpc' = "raised"
                    /\ UNCHANGED <<trial, true_positives>>
               ELSE \* except Exception: pass
                    /\ cpc' = cpc
                    /\ trial' = trial + 1
                    /\ true_positives' = Tally(true_positives, o)
    /\ UNCHANGED <<n_trials, false_positives, empirical_size, size_calibrated,
                   size_perfect, result, diagnostics, sweepVars, auxVars>>

\* after the power-arm loop: the power verdict and the returned result
PowerArmDone ==
    /\ cpc = "power_arm"
    /\ trial \notin TrialRange(n_trials)
    /\ result' = CalibrationResult(TestName, empirical_size, size_calibrated,
                                   Rate(true_positives, n_trials),
                                   PowerAdequate(Rate(true_positives, n_trials)))
    /\ cpc' = "returned"
    /\ UNCHANGED <<n_trials, rng, verdicts, failures, trial, false_positives,
                   true_positives, empirical_size, size_calibrated, size_perfect,
                   diagnostics, attempted, sweepVars, auxVars>>

\* ------------------------------------------------------------- power_curve
\* strengths = [0.0, 0.25, 0.5, 0.75, 1.0, 1.5, 2.0], the first NumStrengths of them
AllStrengths == <<0, 25, 50, 75, 100, 150, 200>>
Strengths == SubSeq(AllStrengths, 1, NumStrengths)

SweepDatasetAlwaysTrumpet(strength, t) == generate_trumpet(NSamples, t, strength)
\* strength == 0 goes through the homoscedastic generator
SweepDataset(strength, t) ==
    IF strength = 0
    THEN generate_nonlinear_homoscedastic(NSamples, t)
    ELSE generate_trumpet(NSamples, t, strength)

SweepAfterSwallowing(o) == "running"
\* no try around fit and test: an exception leaves power_curve
SweepAfter(o) == IF Raises(o) THEN "raised" ELSE "running"

PrintPointFirst(rows, p) == <<p>> \o rows
\* print(f"{strength:<12.2f} {rate:<20.1%} {bar}")
PrintPoint(rows, p) == Append(rows, p)

\* power_curve is called (after calibrate_test has returned or raised)
SweepStart ==
    /\ spc = "idle"
    /\ cpc \in {"returned", "raised"}
    /\ spc' = "running"
    /\ sidx' = 1
    /\ detections' = 0
    /\ pc_trial' = 0
    /\ sweep_attempted' = <<0>>
    /\ UNCHANGED <<n_trials, rng, verdicts, failures, calibVars, points, sweep_log, auxVars>>

\* one iteration of the inner loop
SweepTrial ==
    /\ spc = "running"
    /\ pc_trial \in TrialRange(n_trials)
    /\ LET g == SweepDataset(Strengths[sidx], pc_trial)
       IN \E o \in Outcomes :
            /\ Answers(g.data, o)
            /\ verdicts' = Remember(g.data, o)
            /\ rng' = g.rng
            /\ sweep_attempted' = [sweep_attempted EXCEPT ![sidx] = @ + 1]
            /\ sweep_log' = Append(sweep_log, [kind |-> "trial", sidx |-> sidx, trial |-> pc_trial])
            /\ failures' = IF Raises(o)
                           THEN Append(failures, [arm |-> "sweep", trial |-> pc_trial, msg |-> o])
                           ELSE failures
            /\ spc' = SweepAfter(o)
            /\ IF Raises(o)
               THEN UNCHANGED <<pc_trial, detections>>
               ELSE /\ pc_trial' = pc_trial + 1
                    /\ detections' = Tally(detections, o)
    /\ UNCHANGED <<n_trials, calibVars, sidx, points, auxVars>>

\* after the inner loop: the row of this strength, then the next strength
SweepStrengthDone ==
    /\ spc = "running"
    /\ pc_trial \notin TrialRange(n_trials)
    /\ points' = PrintPoint(points, [strength |-> Strengths[sidx],
                                     rate |-> Rate(detections, n_trials)])
    /\ sweep_log' = Append(sweep_log, [kind |-> "point", sidx |-> sidx, trial |-> 0])
    /\ sidx' = sidx + 1
    /\ IF sidx < Len(Strengths)
       THEN /\ detections' = 0
            /\ pc_trial' = 0
            /\ sweep_attempted' = Append(sweep_attempted, 0)
            /\ spc' = spc
       ELSE /\ spc' = "done"
            /\ UNCHANGED <<detections, pc_trial, sweep_attempted>>
    /\ UNCHANGED <<n_trials, rng, verdicts, failures, calibVars, auxVars>>

\* ------------------------------------------------------------ specification
MainAtStart ==
    /\ rng = [seed |-> -1, pos |-> 0]
    /\ verdicts = <<>>
    /\ cpc = "size_arm"
    /\ trial = 0
    /\ false_positives = 0
    /\ true_positives = 0
    /\ empirical_size = NoRate
    /\ size_calibrated = FALSE
    /\ size_perfect = FALSE
    /\ result = NoResult
    /\ diagnostics = <<>>
    /\ failures = <<>>
    /\ attempted = [size |-> 0, power |-> 0]
    /\ spc = "idle"
    /\ sidx = 0
    /\ pc_trial = 0
    /\ detections = 0
    /\ points = <<>>
    /\ sweep_attempted = <<>>
    /\ sweep_log = <<>>

SeedsIdle == seed_pair = NoPair
SelectIdle ==
    /\ rpc = "idle"
    /\ results = <<>>
    /\ best = NoResult
    /\ oversized = <<>>
ParIdle ==
    /\ par_arm = "none"
    /\ wpc = <<>>
    /\ wtrial = <<>>
    /\ wdata = <<>>
    /\ pending = {}
    /\ par_data = <<>>
    /\ par_positives = 0

\* calibrate_test and then power_curve, for the same test and parameters
Init ==
    /\ n_trials \in 1 .. MaxTrials
    /\ MainAtStart
    /\ SeedsIdle
    /\ SelectIdle
    /\ ParIdle

Next ==
    \/ SizeTrial
    \/ SizeArmDone
    \/ PowerTrial
    \/ PowerArmDone
    \/ SweepStart
    \/ SweepTrial
    \/ SweepStrengthDone

Spec == Init /\ [][Next]_vars

\* ------------------------------------------------- properties of Spec
FailuresOf(arms) == {i \in 1 .. Len(failures) : failures[i].arm \in arms}
InUnit(r) == r[2] > 0 /\ 0 <= r[1] /\ r[1] <= r[2]

\* C1: in calibrate_test a trial of either arm whose fit or test raises is
\* caught and counted as a non-rejection: the exception never leaves
\* calibrate_test, and a failed trial never adds to the positive counter.
C1_FailureIsTolerated ==
    /\ cpc # "raised"
    /\ false_positives + Cardinality(FailuresOf({"size"})) <= attempted.size
    /\ true_positives + Cardinality(FailuresOf({"power"})) <= attempted.power

\* C10: in calibrate_test every trial of either arm whose fit or test raises
\* has a diagnostic with its trial index and its failure message, and there
\* are as many diagnostics as failed trials.
C10_EveryFailureHasDiagnostic ==
    /\ \A i \in FailuresOf({"size", "power"}) :
          \E k \in 1 .. Len(diagnostics) :
             /\ diagnostics[k].trial = failures[i].trial
             /\ diagnostics[k].msg = failures[i].msg
    /\ Len(diagnostics) = Cardinality(FailuresOf({"size", "power"}))

\* C2: in power_curve a trial whose fit or test raises ends power_curve with
\* that exception: the failing trial is the last trial run, and no row exists
\* for the strength it belongs to or for any later strength.
C2_SweepFailurePropagates ==
    \A i \in FailuresOf({"sweep"}) :
        /\ spc = "raised"
        /\ i = Len(failures)
        /\ sweep_log # <<>>
        /\ sweep_log[Len(sweep_log)] =
              [kind |-> "trial", sidx |-> sidx, trial |-> failures[i].trial]
        /\ Len(points) = sidx - 1
        /\ \A k \in 1 .. Len(points) : points[k].strength # Strengths[sidx]

C2_Witness ==
    /\ spc = "raised"
    /\ sidx = 2
    /\ Len(points) = 1
    /\ pc_trial > 0

\* C3: whenever power_curve has a row for strength 0 and calibrate_test has
\* finished its size arm with the same parameters, the detection rate of
\* that row equals empirical_size.
C3_SweepConsistency ==
    \A k \in 1 .. Len(points) :
        (points[k].strength = 0 /\ empirical_size # NoRate)
            => points[k].rate = empirical_size

C3_Witness ==
    /\ Len(points) >= 1
    /\ points[1].strength = 0
    /\ empirical_size # NoRate
    /\ empirical_size[1] > 0
    /\ empirical_size[1] < n_trials

\* C7: a positive counter never exceeds the trials attempted so far; an arm
\* or a strength that finishes has attempted exactly n_trials trials, and the
\* rates computed from the counters lie in [0, 1].
C7_TallyBounds ==
    /\ false_positives <= attempted.size
    /\ true_positives <= attempted.power
    /\ sweep_attempted # <<>> => detections <= sweep_attempted[Len(sweep_attempted)]
    /\ empirical_size # NoRate =>
          /\ attempted.size = n_trials
          /\ InUnit(empirical_size)
    /\ cpc = "returned" =>
          /\ attempted.power = n_trials
          /\ InUnit(result.empirical_size)
          /\ InUnit(result.power)
    /\ \A k \in 1 .. Len(points) :
          /\ sweep_attempted[k] = n_trials
          /\ InUnit(points[k].rate)

C7_Witness ==
    /\ cpc = "returned"
    /\ spc = "done"
    /\ n_trials > 1
    /\ result.power[1] = n_trials
    /\ result.empirical_size[1] = 1
    /\ points[Len(points)].rate[1] = n_trials

\* the k-th event of a sweep in which no trial fails: for each strength in
\* turn, trials 0 .. n_trials-1 and then the row of that strength
ExpectedEvent(k) ==
    LET s == ((k - 1) \div (n_trials + 1)) + 1
        j == (k - 1) % (n_trials + 1)
    IN IF j < n_trials
       THEN [kind |-> "trial", sidx |-> s, trial |-> j]
       ELSE [kind |-> "point", sidx |-> s, trial |-> 0]

\* C9: when no trial fails, power_curve prints one row per strength in the
\* order of the strength list, each row after all n_trials trials of its
\* strength and before any trial of the next strength.
C9_OnePointPerStrengthInOrder ==
    FailuresOf({"sweep"}) = {} =>
        /\ \A k \in 1 .. Len(sweep_log) : sweep_log[k] = ExpectedEvent(k)
        /\ Len(points) = Cardinality({k \in 1 .. Len(sweep_log) : sweep_log[k].kind = "point"})
        /\ Len(points) <= Len(Strengths)
        /\ \A k \in 1 .. Len(points) : points[k].strength = Strengths[k]
        /\ spc = "done" => Len(points) = Len(Strengths)

C9_Witness ==
    /\ spc = "done"
    /\ Len(points) = Len(Strengths)
    /\ Len(points) >= 2
    /\ n_trials > 1

\* ============================================ the classification alone
\* n_trials of the largest classification explored
ClassifyTrials == 100

\* the power-arm loop as a whole, none of its fits raising: some tally, and
\* the random state its last trial leaves
PowerArmSummary ==
    /\ cpc = "power_arm"
    /\ trial = 0
    /\ attempted.power = 0
    /\ \E tp \in 0 .. n_trials : true_positives' = tp
    /\ trial' = n_trials
    /\ attempted' = [attempted EXCEPT !.power = n_trials]
    /\ rng' = generate_trumpet(NSamples, PowerSeed(n_trials - 1), 100).rng
    /\ UNCHANGED <<n_trials, verdicts, failures, cpc, false_positives,
                   empirical_size, size_calibrated, size_perfect, result,
                   diagnostics, sweepVars, auxVars>>

\* calibrate_test at the end of its size-arm loop, no trial having raised,
\* with any tally (the answers of fit and test are summed up in the tally)
InitClassify ==
    /\ n_trials \in {ClassifyTrials \div 10, ClassifyTrials \div 5, ClassifyTrials}
    /\ false_positives \in 0 .. n_trials
    /\ trial = n_trials
    /\ attempted = [size |-> n_trials, power |-> 0]
    /\ rng = generate_nonlinear_homoscedastic(NSamples, SizeSeed(n_trials - 1)).rng
    /\ verdicts = <<>>
    /\ cpc = "size_arm"
    /\ true_positives = 0
    /\ empirical_size = NoRate
    /\ size_calibrated = FALSE
    /\ size_perfect = FALSE
    /\ result = NoResult
    /\ diagnostics = <<>>
    /\ failures = <<>>
    /\ spc = "idle"
    /\ sidx = 0
    /\ pc_trial = 0
    /\ detections = 0
    /\ points = <<>>
    /\ sweep_attempted = <<>>
    /\ sweep_log = <<>>
    /\ SeedsIdle
    /\ SelectIdle
    /\ ParIdle

NextClassify ==
    \/ SizeArmDone
    \/ PowerArmSummary
    \/ PowerArmDone

SpecClassify == InitClassify /\ [][NextClassify]_vars

SeedSample == 3

SeedTrialCounts == {1, 2, 500, SeedOffset - 1, SeedOffset, SeedOffset + 1}
SampleTrials(n) == {t \in TrialRange(n) : t < SeedSample \/ t >= n - SeedSample}

\* the seed of one trial of the size arm and of one trial of the power arm
DrawSeedPair ==
    /\ seed_pair = NoPair
    /\ \E t1 \in SampleTrials(n_trials), t2 \in SampleTrials(n_trials) :
          seed_pair' = [size_trial |-> t1, size_seed |-> SizeSeed(t1),
                        power_trial |-> t2, power_seed |-> PowerSeed(t2)]
    /\ UNCHANGED <<mainVars, selectVars, parVars>>

InitSeeds ==
    /\ n_trials \in SeedTrialCounts
    /\ MainAtStart
    /\ SeedsIdle
    /\ SelectIdle
    /\ ParIdle

NextSeeds == DrawSeedPair

SpecSeeds == InitSeeds /\ [][NextSeeds]_vars

\* C4: within one calibrate_test call, for every n_trials > 0, no seed of a
\* size-arm trial is the seed of a power-arm trial.
C4_SeedStreamsDisjoint ==
    seed_pair # NoPair => seed_pair.size_seed # seed_pair.power_seed

\* ======================================================= run_full_calibration
\* n_trials of the calibrations summarised
SelectTrials == 20

\* tests = ["breusch_pagan", "white", "dette_munk_wagner"]
Tests == <<"breusch_pagan", "white", "dette_munk_wagner">>

Passing(r) == r.size_calibrated /\ r.power_adequate
NotCalibrated(r) == ~r.size_calibrated

\* r.power - r.empirical_size as a fraction, and its order
Margin(r) ==
    <<r.power[1] * r.empirical_size[2] - r.empirical_size[1] * r.power[2],
      r.power[2] * r.empirical_size[2]>>
MarginLess(a, b) == Margin(a)[1] * Margin(b)[2] < Margin(b)[1] * Margin(a)[2]

PassingTestsUnfiltered(rs) == rs
\* passing_tests = [r for r in results if r.size_calibrated and r.power_adequate]
PassingTests(rs) == SelectSeq(rs, Passing)

\* max(passing_tests, key=...): the first element no other element exceeds
MaxByMargin(rs) ==
    LET i == CHOOSE i \in 1 .. Len(rs) :
                 /\ \A j \in 1 .. Len(rs) : ~MarginLess(rs[i], rs[j])
                 /\ \A j \in 1 .. (i - 1) : MarginLess(rs[j], rs[i])
    IN rs[i]

\* result = calibrate_test(test_name, ...); results.append(result), the two
\* arms of calibrate_test taken as a whole: some pair of tallies
CalibrateNext ==
    /\ rpc = "calibrating"
    /\ Len(results) < Len(Tests)
    /\ \E fp \in 0 .. 3, tp \in (n_trials - 5) .. (n_trials - 2) :
          results' = Append(results,
              CalibrationResult(Tests[Len(results) + 1],
                                Rate(fp, n_trials), SizeCalibrated(Rate(fp, n_trials)),
                                Rate(tp, n_trials), PowerAdequate(Rate(tp, n_trials))))
    /\ UNCHANGED <<mainVars, seedVars, rpc, best, oversized, parVars>>

\* the analysis after the loop: the best test, or the oversized group
Summarise ==
    /\ rpc = "calibrating"
    /\ Len(results) = Len(Tests)
    /\ LET passing_tests == PassingTests(results)
       IN IF passing_tests # <<>>
          THEN /\ best' = MaxByMargin(passing_tests)
               /\ oversized' = <<>>
          ELSE /\ best' = NoResult
               /\ oversized' = SelectSeq(results, NotCalibrated)
    /\ rpc' = "summarised"
    /\ UNCHANGED <<mainVars, seedVars, results, parVars>>

InitSelect ==
    /\ n_trials = SelectTrials
    /\ MainAtStart
    /\ SeedsIdle
    /\ rpc = "calibrating"
    /\ results = <<>>
    /\ best = NoResult
    /\ oversized = <<>>
    /\ ParIdle

NextSelect ==
    \/ CalibrateNext
    \/ Summarise

SpecSelect == InitSelect /\ [][NextSelect]_vars

Range(f) == {f[i] : i \in DOMAIN f}

\* C6: if some result has both flags true, the test reported as best has both
\* flags true and no result with both flags true has a larger margin
\* power - empirical_size; otherwise no best test is reported and the
\* oversized group is exactly the results with size_calibrated false.
C6_BestTestSelection ==
    rpc = "summarised" =>
        IF \E r \in Range(results) : r.size_calibrated /\ r.power_adequate
        THEN /\ best \in Range(results)
             /\ best.size_calibrated /\ best.power_adequate
             /\ \A r \in Range(results) :
                   (r.size_calibrated /\ r.power_adequate) =>
                       r.power[1] - r.empirical_size[1]
                           <= best.power[1] - best.empirical_size[1]
        ELSE /\ best = NoResult
             /\ Range(oversized) = {r \in Range(results) : ~r.size_calibrated}

C6_Witness ==
    /\ rpc = "summarised"
    /\ best # NoResult
    /\ best.test_name = Tests[2]
    /\ \E r \in Range(results) :
          /\ r.size_calibrated /\ r.power_adequate
          /\ r.power[1] - r.empirical_size[1] < best.power[1] - best.empirical_size[1]
    /\ \E r \in Range(results) :
          /\ ~r.size_calibrated
          /\ r.power[1] - r.empirical_size[1] > best.power[1] - best.empirical_size[1]

\* ================================= the trials of one arm run by several workers
\* workers sharing the process, and the trials they share out
NumWorkers == 2
ParTrials == 2

Workers == 1 .. NumWorkers
NoData == [n |-> 0]

ArmSeed(arm, t) == IF arm = "size" THEN SizeSeed(t) ELSE PowerSeed(t)
ArmData(arm, noise) ==
    IF arm = "size"
    THEN HomoscedasticData(NSamples, noise)
    ELSE TrumpetData(NSamples, noise, 100)

\* every dataset a worker can come to hold: the stream is that of some trial's
\* seed, read from where the draws since the last seeding have left it
ParDatasets(arm) ==
    {ArmData(arm, [seed |-> ArmSeed(arm, t), from |-> k * NSamples]) :
        t \in TrialRange(ParTrials), k \in 0 .. (ParTrials - 1)}

\* a free worker takes a trial index nobody has taken
TakeTrial(w) ==
    /\ wpc[w] = "idle"
    /\ \E t \in pending :
          /\ wtrial' = [wtrial EXCEPT ![w] = t]
          /\ pending' = pending \ {t}
    /\ wpc' = [wpc EXCEPT ![w] = "seed"]
    /\ UNCHANGED <<n_trials, rng, verdicts, failures, calibVars, sweepVars,
                   seedVars, selectVars, par_arm, wdata, par_data, par_positives>>

\* np.random.seed(seed): the process-wide random state is set
WorkerSeed(w) ==
    /\ wpc[w] = "seed"
    /\ rng' = Seeded(ArmSeed(par_arm, wtrial[w]))
    /\ wpc' = [wpc EXCEPT ![w] = "draw"]
    /\ UNCHANGED <<n_trials, verdicts, failures, calibVars, sweepVars, seedVars,
                   selectVars, par_arm, wtrial, wdata, pending, par_data, par_positives>>

\* np.random.randn(n): the noise comes from whatever the process-wide state is
WorkerDraw(w) ==
    /\ wpc[w] = "draw"
    /\ LET r == Randn(rng, NSamples)
       IN /\ rng' = r.state
          /\ wdata' = [wdata EXCEPT ![w] = ArmData(par_arm, r.noise)]
    /\ wpc' = [wpc EXCEPT ![w] = "test"]
    /\ UNCHANGED <<n_trials, verdicts, failures, calibVars, sweepVars, seedVars,
                   selectVars, par_arm, wtrial, pending, par_data, par_positives>>

\* fit, test, and the tally of this trial
WorkerTest(w) ==
    /\ wpc[w] = "test"
    /\ par_positives' = Tally(par_positives, verdicts[wdata[w]])
    /\ par_data' = par_data @@ (wtrial[w] :> wdata[w])
    /\ wpc' = [wpc EXCEPT ![w] = "idle"]
    /\ UNCHANGED <<n_trials, rng, verdicts, failures, calibVars, sweepVars, seedVars,
                   selectVars, par_arm, wtrial, wdata, pending>>

InitPar ==
    /\ n_trials = ParTrials
    /\ par_arm \in {"size", "power"}
    /\ verdicts \in [ParDatasets(par_arm) -> {"reject", "accept"}]
    /\ rng = [seed |-> -1, pos |-> 0]
    /\ cpc = "size_arm"
    /\ trial = 0
    /\ false_positives = 0
    /\ true_positives = 0
    /\ empirical_size = NoRate
    /\ size_calibrated = FALSE
    /\ size_perfect = FALSE
    /\ result = NoResult
    /\ diagnostics = <<>>
    /\ failures = <<>>
    /\ attempted = [size |-> 0, power |-> 0]
    /\ spc = "idle"
    /\ sidx = 0
    /\ pc_trial = 0
    /\ detections = 0
    /\ points = <<>>
    /\ sweep_attempted = <<>>
    /\ sweep_log = <<>>
    /\ SeedsIdle
    /\ SelectIdle
    /\ wpc = [w \in Workers |-> "idle"]
    /\ wtrial = [w \in Workers |-> 0]
    /\ wdata = [w \in Workers |-> NoData]
    /\ pending = TrialRange(n_trials)
    /\ par_data = <<>>
    /\ par_positives = 0

NextPar ==
    \/ \E w \in Workers : TakeTrial(w)
    \/ \E w \in Workers : WorkerSeed(w)
    \/ \E w \in Workers : WorkerDraw(w)
    \/ \E w \in Workers : WorkerTest(w)

SpecPar == InitPar /\ [][NextPar]_vars

\* the dataset trial t gets when the trials run one after the other
SequentialData(arm, t) ==
    IF arm = "size"
    THEN generate_nonlinear_homoscedastic(NSamples, SizeSeed(t)).data
    ELSE generate_trumpet(NSamples, PowerSeed(t), 100).data

\* C8: whatever the order and the interleaving of the workers, every trial
\* index gets the dataset it gets in the sequential run, and the final tally
\* of positives is that of the sequential run.
C8_ParallelismPreservesResults ==
    /\ \A t \in DOMAIN par_data : par_data[t] = SequentialData(par_arm, t)
    /\ DOMAIN par_data = TrialRange(n_trials) /\ par_arm # "none" =>
          par_positives =
             Cardinality({t \in TrialRange(n_trials) :
                             verdicts[SequentialData(par_arm, t)] = "reject"})

====
